---- MODULE Spec2Model ----
(***************************************************************************)
(* Model of the whisper.rn demo application: the useWhisperModels hook     *)
(* (src/hooks/useWhisperModels.ts) and the parts of App (src/App.tsx) that *)
(* drive it.  Every asynchronous function is cut at its awaits: one action *)
(* per synchronous segment, with the native side (file system, transfer,   *)
(* recognition engine) answering in steps of its own.                      *)
(***************************************************************************)
EXTENDS Integers, Sequences, FiniteSets, TLC

VARIABLES
    modelFiles,           \* useState<Record<string, string>>({})
    downloadProgress,     \* useState<Record<string, number>>({})
    isDownloading,        \* useState(false)
    isInitializingModel,  \* useState(false)
    whisperContext,       \* useState<WhisperContext | null>(null)
    vadContext,           \* useState<any>(null)
    currentModelId,       \* useState<string | null>(null)
    disk,                 \* the device file system: what is at each cache path
    handles,              \* the engine handles created so far, in creation order
    call,                 \* the invocations of downloadModel / initializeWhisperModel
    last,                 \* the invocation that ended last, as its caller saw it
    started,              \* how many invocations have been started
    mounted,              \* App's mount effect has run
    unmounted,            \* App has been unmounted
    error,                \* App: useState<string>(""), by the kind of message
    realtimeTranscriber,  \* App: useState<any>(null), the session whose stop it holds
    isRealtimeActive,     \* App: useState(false)
    realtimeResult,       \* App: useState<string>("")
    realtimeFinalResult,  \* App: useState<string>("")
    sessions,             \* the realtime sessions the engine has started, each
                          \* with the last non-empty text it delivered, trimmed
    taps,                 \* the invocations of App's live-session handlers
    tapped,               \* how many buttons other than the chips were tapped
    dialog,               \* App: the Alert.alert that is open
    isDeletingModelId,    \* App: useState<string | null>(null)
    isTranscribing,       \* App: useState(false)
    transcriptionResult   \* App: useState<string>("")

hookVars == <<modelFiles, downloadProgress, isDownloading, isInitializingModel,
              whisperContext, vadContext, currentModelId>>
uiVars == <<dialog, isDeletingModelId, isTranscribing, transcriptionResult>>
appVars == <<mounted, unmounted, realtimeTranscriber, isRealtimeActive, realtimeResult,
             realtimeFinalResult, sessions, taps, tapped, uiVars>>
vars == <<modelFiles, downloadProgress, isDownloading, isInitializingModel,
          whisperContext, vadContext, currentModelId, disk, handles, call, last,
          started, mounted, unmounted, error, realtimeTranscriber, isRealtimeActive,
          realtimeResult, realtimeFinalResult, sessions, taps, tapped,
          dialog, isDeletingModelId, isTranscribing, transcriptionResult>>

----------------------------------------------------------------------------
(* Bounds *)

\* invocations started in one run
MaxCalls == 3
\* largest Content-Length a transfer announces (in blocks)
MaxContentLength == 2
\* taps on the buttons other than the model chips in one run
MaxTaps == 2

\* the places an invocation of an asynchronous operation of the hook can
\* run in: two, so that two invocations can overlap
Slots == {"s1", "s2"}

----------------------------------------------------------------------------
(* The catalog and the cache paths *)

\* null, for currentModelId
Null == "null"

\* null, for whisperContext and vadContext; the engine's handles are 1, 2, ...
NoHandle == 0

\* what find() returns when no entry of the catalog matches
Undefined == [id |-> "undefined", filename |-> "undefined"]

\* no path
NoPath == << >>

WHISPER_MODELS ==
    << [id |-> "tiny",       filename |-> "ggml-tiny.en.bin"],
       [id |-> "base",       filename |-> "ggml-base.bin"],
       [id |-> "small",      filename |-> "ggml-small.bin"],
       [id |-> "small-tdrz", filename |-> "ggml-small.en-tdrz.bin"] >>

ModelIds == {WHISPER_MODELS[i].id : i \in DOMAIN WHISPER_MODELS}

\* WHISPER_MODELS.find((m) => m.id === modelId)
Find(modelId) ==
    IF \E i \in DOMAIN WHISPER_MODELS : WHISPER_MODELS[i].id = modelId
    THEN WHISPER_MODELS[CHOOSE i \in DOMAIN WHISPER_MODELS :
                            /\ WHISPER_MODELS[i].id = modelId
                            /\ \A j \in DOMAIN WHISPER_MODELS :
                                 WHISPER_MODELS[j].id = modelId => i <= j]
    ELSE Undefined

\* `${RNFS.DocumentDirectoryPath}/whisper-models/`
ModelDirectory == "Documents/whisper-models/"

\* `${directory}${model.filename}`
FilePath(model) == <<ModelDirectory, model.filename>>

PathOf(modelId) == FilePath(Find(modelId))

Paths == {FilePath(WHISPER_MODELS[i]) : i \in DOMAIN WHISPER_MODELS}

\* the identifiers the callers of this model pass in: three of the catalog
\* and one the catalog does not hold
InputIds == {"tiny", "base", "large-v3-turbo"}

----------------------------------------------------------------------------
(* Progress values: bytesWritten / contentLength as a reduced fraction *)

RECURSIVE Gcd(_, _)
Gcd(a, b) == IF b = 0 THEN a ELSE Gcd(b, a % b)

Fraction(n, d) == [num |-> n \div Gcd(n, d), den |-> d \div Gcd(n, d)]

One == [num |-> 1, den |-> 1]

Leq(p, q) == p.num * q.den <= q.num * p.den

\* variant of ProgressValue: the share still to come instead of the share
\* written
ProgressValueRemaining(bytesWritten, contentLength) ==
    Fraction(contentLength - bytesWritten, contentLength)

\* res.bytesWritten / res.contentLength
ProgressValue(bytesWritten, contentLength) == Fraction(bytesWritten, contentLength)

\* the literal written when the transfer ended with status 200
FinalProgress == One

----------------------------------------------------------------------------
(* Invocations *)

\* {...prev, [key]: value}
Put(prev, key, value) == (key :> value) @@ prev

NoReturn == [path |-> NoPath, whisperContext |-> NoHandle, vadContext |-> NoHandle]

\* pc: where the invocation waits; found: the answer of RNFS.exists;
\* bytes, len: the transfer's bytesWritten and contentLength; reported: the
\* values this invocation has written to downloadProgress; net: the
\* transfers it has started; path: what downloadModel returned to it;
\* engine: whether it has called initWhisper; native, handle: the engine's
\* answer; context: the handle initWhisper gave it; before: whisperContext
\* and the two maps as they were when it was invoked
NoBefore == [whisperContext |-> NoHandle, modelFiles |-> << >>,
             downloadProgress |-> << >>]

IdleCall ==
    [pc |-> "idle", op |-> "none", modelId |-> Null,
     initVad |-> FALSE, capturedVad |-> NoHandle, found |-> FALSE,
     bytes |-> 0, len |-> 0, reported |-> << >>, net |-> 0,
     path |-> NoPath, engine |-> FALSE, native |-> "none", handle |-> NoHandle,
     context |-> NoHandle, outcome |-> "none", cause |-> "none",
     ret |-> NoReturn, before |-> NoBefore]

Free(c) == call[c].pc = "idle"

\* no download or initialization is in flight
NoneInFlight == \A c \in Slots : Free(c)

\* the slot a client that waits for each operation before it starts the
\* next one runs its invocations in
Sequential(c) == c = "s1" /\ NoneInFlight

InFlight(c) == ~Free(c)

\* the record of an invocation that has returned or thrown: what it was,
\* what it did and how it ended
Ended(r, outcome, cause, ret) ==
    [IdleCall EXCEPT !.pc = "done", !.op = r.op,
                     !.modelId = r.modelId, !.initVad = r.initVad,
                     !.found = r.found, !.net = r.net, !.path = r.path,
                     !.engine = r.engine, !.context = r.context,
                     !.reported = r.reported,
                     !.outcome = outcome, !.cause = cause, !.ret = ret]

\* invocation c ends as record e says: e is what its caller gets, and c is
\* free for the next invocation.  Once App is mounted the caller is App's
\* initializeModel, whose catch sets the error text
End(c, e) ==
    /\ last' = e
    /\ call' = [call EXCEPT ![c] = IdleCall]
    /\ error' = IF /\ mounted /\ e.op = "initializeWhisperModel"
                   /\ e.outcome \notin {"ok", "resolved"}
                THEN "initialize" ELSE error

\* invocation c goes on as record r says, or ends if r is an ended one
Continue(c, r) ==
    IF r.pc = "done" THEN End(c, r)
    ELSE /\ call' = [call EXCEPT ![c] = r]
         /\ UNCHANGED <<last, error>>

\* null, for realtimeTranscriber; the engine's sessions are 1, 2, ...
NoSession == 0

\* the places an invocation of startRealtimeTranscription or
\* stopRealtimeTranscription can run in
TapSlots == {"t1", "t2"}

\* pc: where the handler waits; context, transcriber, result: the
\* whisperContext, realtimeTranscriber and realtimeResult of the render the
\* handler was created in
IdleTap == [pc |-> "idle", context |-> NoHandle, transcriber |-> NoSession,
            result |-> ""]

\* no alert is open; an open one is the Busy alert or, by the model it
\* names, the Delete Model dialog
NoDialog == "none"

Init ==
    /\ modelFiles = << >>
    /\ downloadProgress = << >>
    /\ isDownloading = FALSE
    /\ isInitializingModel = FALSE
    /\ whisperContext = NoHandle
    /\ vadContext = NoHandle
    /\ currentModelId = Null
    \* model files of an earlier run may be in the cache directory
    /\ disk \in [Paths -> {"absent", "complete"}]
    /\ \A m \in ModelIds \ InputIds : disk[PathOf(m)] = "absent"
    /\ handles = << >>
    /\ call = [c \in Slots |-> IdleCall]
    /\ last = IdleCall
    /\ started = 0
    /\ mounted = FALSE
    /\ unmounted = FALSE
    /\ error = ""
    /\ realtimeTranscriber = NoSession
    /\ isRealtimeActive = FALSE
    /\ realtimeResult = ""
    /\ realtimeFinalResult = ""
    /\ sessions = << >>
    /\ taps = [t \in TapSlots |-> IdleTap]
    /\ tapped = 0
    /\ dialog = NoDialog
    /\ isDeletingModelId = Null
    /\ isTranscribing = FALSE
    /\ transcriptionResult = ""

----------------------------------------------------------------------------
(* downloadModel *)

\* downloadModel(model) called by a client of the hook: up to the await of
\* getModelDirectory() and RNFS.exists(filePath)
DownloadModelCall(c, modelId) ==
    /\ Free(c)
    /\ started < MaxCalls
    /\ modelId \in ModelIds
    /\ started' = started + 1
    /\ call' = [call EXCEPT ![c] =
                  [IdleCall EXCEPT !.pc = "exists", !.op = "downloadModel",
                                   !.modelId = modelId]]
    /\ UNCHANGED <<error, hookVars, disk, handles, last>>

\* RNFS.exists(filePath) answers
ExistsAnswer(c) ==
    /\ call[c].pc = "exists"
    /\ call' = [call EXCEPT ![c].pc = "exists_done",
                            ![c].found = (disk[PathOf(call[c].modelId)] # "absent")]
    /\ UNCHANGED <<appVars, error, hookVars, disk, handles, last, started>>

\* downloadModel has returned filePath: the caller goes on.  A direct call
\* ends; initializeWhisperModel calls initWhisper({filePath: modelPath})
Resolved(r, filePath) ==
    IF r.op = "downloadModel"
    THEN Ended([r EXCEPT !.path = filePath], "resolved", "none",
               [NoReturn EXCEPT !.path = filePath])
    ELSE [r EXCEPT !.pc = "initWhisper", !.path = filePath, !.engine = TRUE,
                   !.bytes = 0, !.len = 0]

\* variant of Thrown: the catch swallows the error and the invocation goes
\* on with the target path
ThrownSwallowed(r, cause) ==
    IF r.op = "downloadModel"
    THEN Ended(r, "DownloadFailed", cause, NoReturn)
    ELSE [r EXCEPT !.pc = "initWhisper", !.engine = TRUE, !.bytes = 0, !.len = 0]

\* downloadModel has thrown: a direct call ends; initializeWhisperModel's
\* catch rethrows and its finally runs
Thrown(r, cause) == Ended(r, "DownloadFailed", cause, NoReturn)

\* variant of DownloadCached: the path is returned and not recorded
DownloadCachedUnrecorded(c) ==
    LET r == call[c]
        filePath == PathOf(r.modelId)
    IN  /\ r.pc = "exists_done"
        /\ r.found
        /\ Continue(c, Resolved(r, filePath))
        /\ UNCHANGED <<appVars, hookVars, disk, handles, started>>

\* if (fileExists) { setModelFiles(...); return filePath; }
DownloadCached(c) ==
    LET r == call[c]
        filePath == PathOf(r.modelId)
    IN  /\ r.pc = "exists_done"
        /\ r.found
        /\ modelFiles' = Put(modelFiles, r.modelId, filePath)
        /\ Continue(c, Resolved(r, filePath))
        /\ UNCHANGED <<appVars, downloadProgress, isDownloading, isInitializingModel,
                       whisperContext, vadContext, currentModelId,
                       disk, handles, started>>

\* setIsDownloading(true); RNFS.downloadFile({...}) is started
DownloadStart(c, contentLength) ==
    LET r == call[c]
    IN  /\ r.pc = "exists_done"
        /\ ~r.found
        /\ contentLength \in 1..MaxContentLength
        /\ isDownloading' = TRUE
        /\ call' = [call EXCEPT ![c].pc = "transfer", ![c].bytes = 0,
                                ![c].len = contentLength,
                                ![c].net = r.net + 1]
        /\ UNCHANGED <<appVars, error, modelFiles, downloadProgress, isInitializingModel,
                       whisperContext, vadContext, currentModelId,
                       disk, handles, last, started>>

\* progress: (res) => setDownloadProgress({...prev, [model.id]: progress})
DownloadProgress(c, n) ==
    LET r == call[c]
        progress == ProgressValue(r.bytes + n, r.len)
    IN  /\ r.pc = "transfer"
        /\ n \in 1..(r.len - r.bytes)
        /\ disk' = [disk EXCEPT ![PathOf(r.modelId)] = "partial"]
        /\ downloadProgress' = Put(downloadProgress, r.modelId, progress)
        /\ call' = [call EXCEPT ![c].bytes = r.bytes + n,
                                ![c].reported = Append(r.reported, progress)]
        /\ UNCHANGED <<appVars, error, modelFiles, isDownloading, isInitializingModel,
                       whisperContext, vadContext, currentModelId,
                       handles, last, started>>

\* variant of FlagsAfterThrow: initializeWhisperModel has no finally
FlagsAfterThrowNoFinally(r) ==
    /\ isDownloading' = FALSE
    /\ UNCHANGED isInitializingModel

\* the flags an invocation clears when it ends by an exception of
\* downloadModel: downloadModel's finally, then initializeWhisperModel's
FlagsAfterThrow(r) ==
    /\ isDownloading' = FALSE
    /\ isInitializingModel' =
          IF r.op = "initializeWhisperModel" THEN FALSE ELSE isInitializingModel

\* downloadResult.statusCode === 200
DownloadSuccess(c) ==
    LET r == call[c]
        filePath == PathOf(r.modelId)
    IN  /\ r.pc = "transfer"
        /\ disk' = [disk EXCEPT ![filePath] = "complete"]
        /\ modelFiles' = Put(modelFiles, r.modelId, filePath)
        /\ downloadProgress' = Put(downloadProgress, r.modelId, FinalProgress)
        /\ isDownloading' = FALSE
        /\ Continue(c, Resolved([r EXCEPT !.reported =
                                              Append(r.reported, FinalProgress)],
                                 filePath))
        /\ UNCHANGED <<appVars, isInitializingModel, whisperContext, vadContext,
                       currentModelId, handles, started>>

\* variant of DownloadFail: the entry is recorded before the status is read
DownloadFailRecorded(c, cause, wrote) ==
    LET r == call[c]
    IN  /\ r.pc = "transfer"
        /\ cause \in {"status", "fault"}
        /\ wrote \in BOOLEAN
        /\ disk' = IF wrote THEN [disk EXCEPT ![PathOf(r.modelId)] = "partial"]
                            ELSE disk
        /\ modelFiles' = Put(modelFiles, r.modelId, PathOf(r.modelId))
        /\ isDownloading' = FALSE
        /\ isInitializingModel' =
              IF r.op = "initializeWhisperModel" THEN FALSE ELSE isInitializingModel
        /\ End(c, Ended(r, "DownloadFailed", cause, NoReturn))
        /\ UNCHANGED <<appVars, downloadProgress, whisperContext, vadContext,
                       currentModelId, handles, started>>

\* the transfer ended with another status, or the promise rejected; bytes
\* may have reached the target path without a progress event
DownloadFail(c, cause, wrote) ==
    LET r == call[c]
    IN  /\ r.pc = "transfer"
        /\ cause \in {"status", "fault"}
        /\ wrote \in BOOLEAN
        /\ disk' = IF wrote THEN [disk EXCEPT ![PathOf(r.modelId)] = "partial"]
                            ELSE disk
        /\ FlagsAfterThrow(r)
        /\ Continue(c, Thrown(r, cause))
        /\ UNCHANGED <<appVars, modelFiles, downloadProgress, whisperContext, vadContext,
                       currentModelId, handles, started>>

----------------------------------------------------------------------------
(* initializeWhisperModel *)

\* variant of InitializeInvalid: the busy flag is set before the lookup
InitializeInvalidFlagged(c, modelId) ==
    /\ Free(c)
    /\ started < MaxCalls
    /\ Find(modelId) = Undefined
    /\ started' = started + 1
    /\ isInitializingModel' = TRUE
    /\ End(c, Ended([IdleCall EXCEPT !.op = "initializeWhisperModel",
                                     !.modelId = modelId],
                    "InvalidModel", "none", NoReturn))
    /\ UNCHANGED <<modelFiles, downloadProgress, isDownloading, whisperContext,
                   vadContext, currentModelId, disk, handles>>

\* if (!model) throw new Error("Invalid model selected")
InitializeInvalid(c, modelId) ==
    /\ Free(c)
    /\ started < MaxCalls
    /\ Find(modelId) = Undefined
    /\ started' = started + 1
    /\ End(c, Ended([IdleCall EXCEPT !.op = "initializeWhisperModel",
                                     !.modelId = modelId],
                    "InvalidModel", "none", NoReturn))
    /\ UNCHANGED <<hookVars, disk, handles>>

\* variant of InitializeStart: the active identifier is set when the
\* initialization starts
InitializeStartEager(c, modelId, initVad) ==
    /\ Free(c)
    /\ started < MaxCalls
    /\ Find(modelId) # Undefined
    /\ initVad \in BOOLEAN
    /\ started' = started + 1
    /\ isInitializingModel' = TRUE
    /\ currentModelId' = modelId
    /\ call' = [call EXCEPT ![c] =
                  [IdleCall EXCEPT !.pc = "exists",
                                   !.op = "initializeWhisperModel",
                                   !.modelId = modelId, !.initVad = initVad,
                                   !.capturedVad = vadContext,
                                   !.before =
                                      [whisperContext |-> whisperContext,
                                       modelFiles |-> modelFiles,
                                       downloadProgress |-> downloadProgress]]]
    /\ UNCHANGED <<error, modelFiles, downloadProgress, isDownloading,
                   whisperContext, vadContext, disk, handles, last>>

\* setIsInitializingModel(true); await downloadModel(model), which runs up
\* to its first await.  The callback closes over the vadContext of the
\* render that created it.
InitializeStart(c, modelId, initVad) ==
    /\ Free(c)
    /\ started < MaxCalls
    /\ Find(modelId) # Undefined
    /\ initVad \in BOOLEAN
    /\ started' = started + 1
    /\ isInitializingModel' = TRUE
    /\ call' = [call EXCEPT ![c] =
                  [IdleCall EXCEPT !.pc = "exists",
                                   !.op = "initializeWhisperModel",
                                   !.modelId = modelId, !.initVad = initVad,
                                   !.capturedVad = vadContext,
                                   !.before =
                                      [whisperContext |-> whisperContext,
                                       modelFiles |-> modelFiles,
                                       downloadProgress |-> downloadProgress]]]
    /\ UNCHANGED <<error, modelFiles, downloadProgress, isDownloading,
                   whisperContext, vadContext, currentModelId, disk, handles,
                   last>>

\* the engine loads the file of a handle: only a whole model file loads, and
\* the engine may still refuse it.  A handle keeps the path it was made
\* from and its owner: the recognition handle of the initialization that
\* made it
EngineAnswer(c, kind, ok) ==
    LET r == call[c]
    IN  /\ ok \in BOOLEAN
        /\ ok => disk[r.path] = "complete"
        /\ handles' = IF ok
                      THEN Append(handles,
                                  [kind |-> kind, path |-> r.path,
                                   owner |-> IF kind = "whisper"
                                             THEN Len(handles) + 1
                                             ELSE r.context])
                      ELSE handles
        /\ call' = [call EXCEPT ![c].native = IF ok THEN "ok" ELSE "error",
                                ![c].handle = IF ok THEN Len(handles) + 1
                                                    ELSE NoHandle]

\* initWhisper({filePath: modelPath}) answers
InitWhisperAnswer(c, ok) ==
    /\ call[c].pc = "initWhisper"
    /\ call[c].native = "none"
    /\ EngineAnswer(c, "whisper", ok)
    /\ UNCHANGED <<appVars, error, hookVars, disk, last, started>>

\* return {whisperContext: context, vadContext: options?.initVad ? vadContext : null}
\* and the finally of initializeWhisperModel
Returned(r, context) ==
    Ended([r EXCEPT !.context = context], "ok", "none",
          [path |-> NoPath, whisperContext |-> context,
           vadContext |-> IF r.initVad THEN r.capturedVad ELSE NoHandle])

\* variant of InitWhisperFail: the catch resets the session
InitWhisperFailResets(c) ==
    LET r == call[c]
    IN  /\ r.pc = "initWhisper"
        /\ r.native = "error"
        /\ isInitializingModel' = FALSE
        /\ whisperContext' = NoHandle
        /\ vadContext' = NoHandle
        /\ currentModelId' = Null
        /\ End(c, Ended(r, "InitializationFailed", "engine", NoReturn))
        /\ UNCHANGED <<appVars, modelFiles, downloadProgress, isDownloading,
                       disk, handles, started>>

\* initWhisper threw: catch, rethrow, finally
InitWhisperFail(c) ==
    LET r == call[c]
    IN  /\ r.pc = "initWhisper"
        /\ r.native = "error"
        /\ isInitializingModel' = FALSE
        /\ End(c, Ended(r, "InitializationFailed", "engine", NoReturn))
        /\ UNCHANGED <<appVars, modelFiles, downloadProgress, isDownloading,
                       whisperContext, vadContext, currentModelId,
                       disk, handles, started>>

\* setWhisperContext(context); setCurrentModelId(modelId); then either the
\* call of initWhisperVad or the return
InitWhisperDone(c) ==
    LET r == call[c]
    IN  /\ r.pc = "initWhisper"
        /\ r.native = "ok"
        /\ whisperContext' = r.handle
        /\ currentModelId' = r.modelId
        /\ IF r.initVad
           THEN /\ call' = [call EXCEPT ![c].pc = "initWhisperVad",
                                        ![c].context = r.handle,
                                        ![c].native = "none",
                                        ![c].handle = NoHandle]
                /\ UNCHANGED <<isInitializingModel, last, error>>
           ELSE /\ End(c, Returned(r, r.handle))
                /\ isInitializingModel' = FALSE
        /\ UNCHANGED <<appVars, modelFiles, downloadProgress, isDownloading, vadContext,
                       disk, handles, started>>

\* initWhisperVad({filePath: modelPath}) answers
InitVadAnswer(c, ok) ==
    /\ call[c].pc = "initWhisperVad"
    /\ call[c].native = "none"
    /\ EngineAnswer(c, "vad", ok)
    /\ UNCHANGED <<appVars, error, hookVars, disk, last, started>>

\* setVadContext(vad), or the catch of the VAD failure; then the return
InitVadDone(c) ==
    LET r == call[c]
    IN  /\ r.pc = "initWhisperVad"
        /\ r.native # "none"
        /\ vadContext' = IF r.native = "error" THEN vadContext ELSE r.handle
        /\ isInitializingModel' = FALSE
        /\ End(c, [Returned(r, r.context) EXCEPT
                        !.cause = IF r.native = "error" THEN "vad" ELSE "none"])
        /\ UNCHANGED <<appVars, modelFiles, downloadProgress, isDownloading,
                       whisperContext, currentModelId, disk, handles, started>>

\* variant of ResetWhisperContext: the voice-activity handle is kept
ResetKeepsVad ==
    /\ whisperContext' = NoHandle
    /\ currentModelId' = Null
    /\ UNCHANGED <<appVars, error, modelFiles, downloadProgress, isDownloading,
                   isInitializingModel, vadContext, disk, handles, call, last,
                   started>>

\* variant of ResetWhisperContext: the active identifier is kept
ResetKeepsModelId ==
    /\ whisperContext' = NoHandle
    /\ vadContext' = NoHandle
    /\ UNCHANGED <<appVars, error, modelFiles, downloadProgress, isDownloading,
                   isInitializingModel, currentModelId, disk, handles, call,
                   last, started>>

\* resetWhisperContext()
ResetWhisperContext ==
    /\ whisperContext' = NoHandle
    /\ vadContext' = NoHandle
    /\ currentModelId' = Null
    /\ UNCHANGED <<appVars, error, modelFiles, downloadProgress, isDownloading,
                   isInitializingModel, disk, handles, call, last, started>>

----------------------------------------------------------------------------
(* Query helpers *)

\* modelFiles[modelId] !== undefined
IsModelDownloaded(modelId) == modelId \in DOMAIN modelFiles

\* currentModelId ? getModelById(currentModelId) : null
GetCurrentModel == IF currentModelId # Null THEN Find(currentModelId) ELSE Null

----------------------------------------------------------------------------
(* The hook under a client that keeps to the hook's contract: one download *)
(* or initialization in flight at a time, resetWhisperContext at any time  *)

Next ==
    \/ \E c \in Slots, m \in InputIds :
          Sequential(c) /\ DownloadModelCall(c, m) /\ UNCHANGED appVars
    \/ \E c \in Slots : ExistsAnswer(c)
    \/ \E c \in Slots : DownloadCached(c)
    \/ \E c \in Slots, l \in 1..MaxContentLength : DownloadStart(c, l)
    \/ \E c \in Slots, n \in 1..MaxContentLength : DownloadProgress(c, n)
    \/ \E c \in Slots : DownloadSuccess(c)
    \/ \E c \in Slots, cause \in {"status", "fault"}, wrote \in BOOLEAN :
          DownloadFail(c, cause, wrote)
    \/ \E c \in Slots, m \in InputIds :
          Sequential(c) /\ InitializeInvalid(c, m) /\ UNCHANGED appVars
    \/ \E c \in Slots, m \in InputIds, v \in BOOLEAN :
          Sequential(c) /\ InitializeStart(c, m, v) /\ UNCHANGED appVars
    \/ \E c \in Slots, ok \in BOOLEAN : InitWhisperAnswer(c, ok)
    \/ \E c \in Slots : InitWhisperFail(c)
    \/ \E c \in Slots : InitWhisperDone(c)
    \/ \E c \in Slots, ok \in BOOLEAN : InitVadAnswer(c, ok)
    \/ \E c \in Slots : InitVadDone(c)
    \/ ResetWhisperContext

Spec == Init /\ [][Next]_vars

----------------------------------------------------------------------------
(* App: model selection *)

\* the slot the next invocation runs in
FirstFree == IF Free("s1") THEN "s1" ELSE "s2"

\* variant of Mount: the launch initializes the model that the comment in
\* the effect names
MountTiny(c) ==
    /\ ~mounted /\ ~unmounted
    /\ c = FirstFree
    /\ mounted' = TRUE
    /\ InitializeStart(c, "tiny", FALSE)
    /\ UNCHANGED <<unmounted, realtimeTranscriber, isRealtimeActive,
                   realtimeResult, realtimeFinalResult, sessions, taps, tapped,
                   uiVars>>

\* useEffect(() => { initializeModel(); }, []) with modelId = "base"
Mount(c) ==
    /\ ~mounted /\ ~unmounted
    /\ c = FirstFree
    /\ mounted' = TRUE
    /\ InitializeStart(c, "base", FALSE)
    /\ UNCHANGED <<unmounted, realtimeTranscriber, isRealtimeActive,
                   realtimeResult, realtimeFinalResult, sessions, taps, tapped,
                   uiVars>>

\* a model chip: onPress={() => initializeModel(modelId)}, disabled while
\* isDownloading || isInitializingModel
ChipTap(c, modelId) ==
    /\ mounted /\ ~unmounted /\ dialog = NoDialog
    /\ ~(isDownloading \/ isInitializingModel)
    /\ c = FirstFree
    /\ \/ InitializeStart(c, modelId, FALSE)
       \/ InitializeInvalid(c, modelId)
    /\ UNCHANGED appVars

----------------------------------------------------------------------------
(* App: the live session *)

\* data.result.trim()
Trim(text) == CASE text = " a" -> "a"
                [] text = " "  -> ""
                [] OTHER       -> text

\* the texts the engine delivers in data.result
Results == {"", " a", "b"}

\* the slot the next handler runs in
FirstFreeTap == IF taps["t1"].pc = "idle" THEN "t1" ELSE "t2"

hookAndCalls == <<hookVars, disk, handles, call, last, started>>

\* the live button while it reads "Start live session": disabled={!whisperContext};
\* startRealtimeTranscription up to await ensureMicrophonePermission()
StartTap(t) ==
    /\ mounted /\ ~unmounted /\ dialog = NoDialog
    /\ whisperContext # NoHandle
    /\ ~isRealtimeActive
    /\ t = FirstFreeTap /\ taps[t].pc = "idle"
    /\ tapped < MaxTaps
    /\ tapped' = tapped + 1
    /\ taps' = [taps EXCEPT ![t] = [IdleTap EXCEPT !.pc = "permission",
                                                   !.context = whisperContext]]
    /\ UNCHANGED <<hookAndCalls, uiVars, mounted, unmounted, error, realtimeTranscriber,
                   isRealtimeActive, realtimeResult, realtimeFinalResult,
                   sessions>>

\* ensureMicrophonePermission() answers; when granted, up to
\* await whisperContext.transcribeRealtime(realtimeOptions)
PermissionAnswer(t, granted) ==
    /\ taps[t].pc = "permission"
    /\ granted \in BOOLEAN
    /\ IF granted
       THEN /\ isRealtimeActive' = TRUE
            /\ realtimeResult' = ""
            /\ error' = ""
            /\ taps' = [taps EXCEPT ![t].pc = "transcribeRealtime"]
       ELSE /\ error' = "microphone"
            /\ taps' = [taps EXCEPT ![t] = IdleTap]
            /\ UNCHANGED <<isRealtimeActive, realtimeResult>>
    /\ UNCHANGED <<hookAndCalls, uiVars, mounted, unmounted, realtimeTranscriber,
                   realtimeFinalResult, sessions, tapped>>

\* transcribeRealtime answers: subscribe(...) and setRealtimeTranscriber({stop}),
\* or the catch
RealtimeAnswer(t, ok) ==
    /\ taps[t].pc = "transcribeRealtime"
    /\ ok \in BOOLEAN
    /\ IF ok
       THEN /\ sessions' = Append(sessions, [context |-> taps[t].context,
                                             running |-> TRUE,
                                             delivered |-> ""])
            /\ realtimeTranscriber' = Len(sessions) + 1
            /\ UNCHANGED <<error, isRealtimeActive>>
       ELSE /\ error' = "realtime"
            /\ isRealtimeActive' = FALSE
            /\ UNCHANGED <<sessions, realtimeTranscriber>>
    /\ taps' = [taps EXCEPT ![t] = IdleTap]
    /\ UNCHANGED <<hookAndCalls, uiVars, mounted, unmounted, realtimeResult, realtimeFinalResult,
                   tapped>>

\* the subscription callback: if (data?.result) setRealtimeResult(data.result.trim())
RealtimeEvent(s, text) ==
    /\ s \in DOMAIN sessions
    /\ sessions[s].running
    /\ text \in Results
    /\ realtimeResult' = IF text # "" THEN Trim(text) ELSE realtimeResult
    /\ sessions' = IF text # ""
                   THEN [sessions EXCEPT ![s].delivered = Trim(text)]
                   ELSE sessions
    /\ UNCHANGED <<hookAndCalls, uiVars, mounted, unmounted, error, realtimeTranscriber,
                   isRealtimeActive, realtimeFinalResult, taps, tapped>>

\* what stopRealtimeTranscription does after the stop: the final transcript
\* and setIsRealtimeActive(false)
Finish(result) ==
    /\ realtimeFinalResult' = IF Trim(result) # "" THEN Trim(result)
                                                  ELSE realtimeFinalResult
    /\ isRealtimeActive' = FALSE

\* the live button while it reads "Stop live session":
\* stopRealtimeTranscription up to await realtimeTranscriber.stop(), or to
\* its end when no transcriber is stored
StopTap(t) ==
    /\ mounted /\ ~unmounted /\ dialog = NoDialog
    /\ whisperContext # NoHandle
    /\ isRealtimeActive
    /\ t = FirstFreeTap /\ taps[t].pc = "idle"
    /\ tapped < MaxTaps
    /\ tapped' = tapped + 1
    /\ IF realtimeTranscriber # NoSession
       THEN /\ taps' = [taps EXCEPT ![t] =
                          [IdleTap EXCEPT !.pc = "stop",
                                          !.transcriber = realtimeTranscriber,
                                          !.result = realtimeResult]]
            /\ UNCHANGED <<realtimeFinalResult, isRealtimeActive>>
       ELSE /\ Finish(realtimeResult)
            /\ UNCHANGED taps
    /\ UNCHANGED <<hookAndCalls, uiVars, mounted, unmounted, error, realtimeTranscriber,
                   realtimeResult, sessions>>

\* stop() answers: setRealtimeTranscriber(null) and the rest of the handler,
\* or the catch, which only logs
StopAnswer(t, ok) ==
    /\ taps[t].pc = "stop"
    /\ ok \in BOOLEAN
    /\ IF ok
       THEN /\ sessions' = [sessions EXCEPT ![taps[t].transcriber].running = FALSE]
            /\ realtimeTranscriber' = NoSession
            /\ Finish(taps[t].result)
       ELSE UNCHANGED <<sessions, realtimeTranscriber, realtimeFinalResult,
                        isRealtimeActive>>
    /\ taps' = [taps EXCEPT ![t] = IdleTap]
    /\ UNCHANGED <<hookAndCalls, uiVars, mounted, unmounted, error, realtimeResult, tapped>>

\* the Clear link: onPress={() => setRealtimeFinalResult("")}
ClearFinal ==
    /\ mounted /\ ~unmounted /\ dialog = NoDialog
    /\ realtimeFinalResult # ""
    /\ realtimeFinalResult' = ""
    /\ UNCHANGED <<hookAndCalls, uiVars, mounted, unmounted, error, realtimeTranscriber,
                   isRealtimeActive, realtimeResult, sessions, taps, tapped>>

----------------------------------------------------------------------------
(* App: the sample transcription *)

\* the "Transcribe sample" button, disabled={!whisperContext || isTranscribing}:
\* transcribeAudio up to its awaits (the sample's download, the engine's
\* promise)
TranscribeTap ==
    /\ mounted /\ ~unmounted /\ dialog = NoDialog
    /\ whisperContext # NoHandle
    /\ ~isTranscribing
    /\ tapped < MaxTaps
    /\ tapped' = tapped + 1
    /\ isTranscribing' = TRUE
    /\ transcriptionResult' = ""
    /\ error' = ""
    /\ UNCHANGED <<hookAndCalls, mounted, unmounted, realtimeTranscriber, isRealtimeActive,
                   realtimeResult, realtimeFinalResult, sessions, taps, dialog,
                   isDeletingModelId>>

\* the engine's promise resolves with result, or an await of transcribeAudio
\* throws; then the finally
TranscribeAnswer(ok, result) ==
    /\ isTranscribing
    /\ ok \in BOOLEAN
    /\ IF ok
       THEN /\ transcriptionResult' = IF result # "" THEN result
                                       ELSE "No transcription result"
            /\ UNCHANGED error
       ELSE /\ error' = "transcription"
            /\ UNCHANGED transcriptionResult
    /\ isTranscribing' = FALSE
    /\ UNCHANGED <<hookAndCalls, mounted, unmounted, realtimeTranscriber, isRealtimeActive,
                   realtimeResult, realtimeFinalResult, sessions, taps, tapped,
                   dialog, isDeletingModelId>>

----------------------------------------------------------------------------
(* App: removing a stored model *)

\* the Remove link of a stored model, disabled={deleting}: handleDeleteModel
\* shows the Busy alert or the Delete Model dialog
RemoveTap(modelId) ==
    /\ mounted /\ ~unmounted /\ dialog = NoDialog
    /\ modelId \in DOMAIN modelFiles
    /\ isDeletingModelId # modelId
    /\ tapped < MaxTaps
    /\ tapped' = tapped + 1
    /\ dialog' = IF isRealtimeActive \/ isTranscribing THEN "Busy" ELSE modelId
    /\ UNCHANGED <<hookAndCalls, mounted, unmounted, error, realtimeTranscriber,
                   isRealtimeActive, realtimeResult, realtimeFinalResult,
                   sessions, taps, isDeletingModelId, isTranscribing,
                   transcriptionResult>>

\* the alert's OK, or the dialog's Cancel
DialogDismiss ==
    /\ ~unmounted
    /\ dialog # NoDialog
    /\ dialog' = NoDialog
    /\ UNCHANGED <<hookAndCalls, mounted, unmounted, error, realtimeTranscriber,
                   isRealtimeActive, realtimeResult, realtimeFinalResult,
                   sessions, taps, tapped, isDeletingModelId, isTranscribing,
                   transcriptionResult>>

\* the dialog's Delete: setIsDeletingModelId(modelId); await deleteModel(modelId),
\* which runs up to its removal of the file
DeleteConfirm(c) ==
    /\ ~unmounted
    /\ dialog \in ModelIds
    /\ c = FirstFree /\ Free(c)
    /\ dialog' = NoDialog
    /\ isDeletingModelId' = dialog
    /\ call' = [call EXCEPT ![c] =
                  [IdleCall EXCEPT !.pc = "unlink", !.op = "deleteModel",
                                   !.modelId = dialog]]
    /\ UNCHANGED <<hookVars, disk, handles, last, started, mounted, unmounted, error,
                   realtimeTranscriber, isRealtimeActive, realtimeResult,
                   realtimeFinalResult, sessions, taps, tapped, isTranscribing,
                   transcriptionResult>>

\* prev without the entry of key
Drop(prev, key) == [k \in DOMAIN prev \ {key} |-> prev[k]]

\* variant of DeleteModel: the active session is kept
DeleteModelKeepsSession(c, ok) ==
    LET r == call[c]
    IN  /\ r.pc = "unlink"
        /\ ok \in BOOLEAN
        /\ IF ok
           THEN /\ disk' = [disk EXCEPT ![PathOf(r.modelId)] = "absent"]
                /\ modelFiles' = Drop(modelFiles, r.modelId)
                /\ End(c, Ended(r, "ok", "none", NoReturn))
           ELSE /\ End(c, Ended(r, "DeleteFailed", "fault", NoReturn))
                /\ UNCHANGED <<disk, modelFiles>>
        /\ UNCHANGED <<whisperContext, vadContext, currentModelId,
                       downloadProgress, isDownloading, isInitializingModel,
                       handles, started>>

\* deleteModel(modelId) once the removal of the file has answered: the file
\* is gone (it may have been absent), the cache entry is dropped and, when
\* the model is the active one, the session is cleared; a removal fault
\* rejects with DeleteFailed
DeleteModel(c, ok) ==
    LET r == call[c]
        active == currentModelId = r.modelId
    IN  /\ r.pc = "unlink"
        /\ ok \in BOOLEAN
        /\ IF ok
           THEN /\ disk' = [disk EXCEPT ![PathOf(r.modelId)] = "absent"]
                /\ modelFiles' = Drop(modelFiles, r.modelId)
                /\ whisperContext' = IF active THEN NoHandle ELSE whisperContext
                /\ vadContext' = IF active THEN NoHandle ELSE vadContext
                /\ currentModelId' = IF active THEN Null ELSE currentModelId
                /\ End(c, Ended(r, "ok", "none", NoReturn))
           ELSE /\ End(c, Ended(r, "DeleteFailed", "fault", NoReturn))
                /\ UNCHANGED <<disk, modelFiles, whisperContext, vadContext,
                               currentModelId>>
        /\ UNCHANGED <<downloadProgress, isDownloading, isInitializingModel,
                       handles, started>>

\* deleteModel settles and the Delete handler goes on: the three setters
\* after the await, or the catch; then the finally
DeleteAnswer(c, ok) ==
    /\ DeleteModel(c, ok)
    /\ IF ok
       THEN /\ realtimeTranscriber' = NoSession
            /\ realtimeResult' = ""
            /\ realtimeFinalResult' = ""
       ELSE UNCHANGED <<realtimeTranscriber, realtimeResult, realtimeFinalResult>>
    /\ isDeletingModelId' = Null
    /\ UNCHANGED <<mounted, unmounted, isRealtimeActive, sessions, taps, tapped, dialog,
                   isTranscribing, transcriptionResult>>

----------------------------------------------------------------------------
(* App: unmount *)

\* App is unmounted.  The mount effect returns no cleanup function and App
\* has no other effect: nothing runs.  What was awaited is still awaited and
\* the continuations still run; the state variables then hold what the
\* setters were last called with
Unmount ==
    /\ mounted /\ ~unmounted
    /\ unmounted' = TRUE
    /\ UNCHANGED <<hookAndCalls, uiVars, mounted, error, realtimeTranscriber,
                   isRealtimeActive, realtimeResult, realtimeFinalResult,
                   sessions, taps, tapped>>

----------------------------------------------------------------------------
(* App as its user drives it while it is mounted *)

AppNext ==
    \/ \E c \in Slots : Mount(c)
    \/ \E c \in Slots, m \in InputIds : ChipTap(c, m)
    \/ \E c \in Slots : ExistsAnswer(c)
    \/ \E c \in Slots : DownloadCached(c)
    \/ \E c \in Slots, l \in 1..MaxContentLength : DownloadStart(c, l)
    \/ \E c \in Slots, n \in 1..MaxContentLength : DownloadProgress(c, n)
    \/ \E c \in Slots : DownloadSuccess(c)
    \/ \E c \in Slots, cause \in {"status", "fault"}, wrote \in BOOLEAN :
          DownloadFail(c, cause, wrote)
    \/ \E c \in Slots, ok \in BOOLEAN : InitWhisperAnswer(c, ok)
    \/ \E c \in Slots : InitWhisperFail(c)
    \/ \E c \in Slots : InitWhisperDone(c)
    \/ \E t \in TapSlots : StartTap(t)
    \/ \E t \in TapSlots, granted \in BOOLEAN : PermissionAnswer(t, granted)
    \/ \E t \in TapSlots, ok \in BOOLEAN : RealtimeAnswer(t, ok)
    \/ \E s \in DOMAIN sessions, text \in Results : RealtimeEvent(s, text)
    \/ \E t \in TapSlots : StopTap(t)
    \/ \E t \in TapSlots, ok \in BOOLEAN : StopAnswer(t, ok)
    \/ ClearFinal
    \/ TranscribeTap
    \/ \E ok \in BOOLEAN, result \in {"", "b"} : TranscribeAnswer(ok, result)
    \/ \E m \in InputIds : RemoveTap(m)
    \/ DialogDismiss
    \/ \E c \in Slots : DeleteConfirm(c)
    \/ \E c \in Slots, ok \in BOOLEAN : DeleteAnswer(c, ok)

AppSpec == Init /\ [][AppNext]_vars

----------------------------------------------------------------------------
(* App from its launch to its unmount, with the live-session button as the *)
(* only control the user touches.  The mount effect runs after the first   *)
(* render, the event loop runs every continuation, and the file system,    *)
(* the transfer and the engine answer every request: the steps of the      *)
(* launch are taken when they can be.  Taps and the unmount may never come. *)

\* the mount effect and the steps of the initialization it starts
LaunchSteps ==
    \/ \E c \in Slots : Mount(c)
    \/ \E c \in Slots : ExistsAnswer(c)
    \/ \E c \in Slots : DownloadCached(c)
    \/ \E c \in Slots, l \in 1..MaxContentLength : DownloadStart(c, l)
    \/ \E c \in Slots, n \in 1..MaxContentLength : DownloadProgress(c, n)
    \/ \E c \in Slots : DownloadSuccess(c)
    \/ \E c \in Slots, cause \in {"status", "fault"}, wrote \in BOOLEAN :
          DownloadFail(c, cause, wrote)
    \/ \E c \in Slots, ok \in BOOLEAN : InitWhisperAnswer(c, ok)
    \/ \E c \in Slots : InitWhisperFail(c)
    \/ \E c \in Slots : InitWhisperDone(c)

LaunchNext ==
    \/ LaunchSteps
    \/ \E t \in TapSlots : StartTap(t)
    \/ \E t \in TapSlots, granted \in BOOLEAN : PermissionAnswer(t, granted)
    \/ \E t \in TapSlots, ok \in BOOLEAN : RealtimeAnswer(t, ok)
    \/ \E s \in DOMAIN sessions, text \in Results : RealtimeEvent(s, text)
    \/ \E t \in TapSlots : StopTap(t)
    \/ \E t \in TapSlots, ok \in BOOLEAN : StopAnswer(t, ok)
    \/ ClearFinal
    \/ Unmount

LaunchSpec == Init /\ [][LaunchNext]_vars /\ WF_vars(LaunchSteps)

----------------------------------------------------------------------------
(* Properties of downloadModel *)

\* the engine handles that hold engine-side resources: no operation of the
\* hook or of App calls release() on a context, so every handle created
\* still holds them
LiveHandles == {h \in DOMAIN handles : handles[h].kind = "whisper"}

\* a sequence of progress values never goes down
NonDecreasing(values) ==
    \A i \in 1..(Len(values) - 1) : Leq(values[i], values[i + 1])

\* the invocation that slot c runs after a step, or the one that has just
\* ended in that step
After(c) == IF call'[c].pc = "idle" THEN last' ELSE call'[c]

\* slot c takes the step that follows the answer of RNFS.exists
ResumesAfterExists(c) == call[c].pc = "exists_done" /\ call'[c] # call[c]

\* C1: when RNFS.exists finds the file at the cache path, downloadModel
\* starts no transfer, leaves isDownloading alone, records
\* <model directory> + filename in modelFiles and returns that same path,
\* on every call.
C1_IdempotentResolve ==
    [][\A c \in Slots :
         (ResumesAfterExists(c) /\ call[c].found) =>
            LET m == call[c].modelId
            IN  /\ After(c).net = 0
                /\ After(c).pc # "transfer"
                /\ isDownloading' = isDownloading
                /\ After(c).path = <<ModelDirectory, Find(m).filename>>
                /\ After(c).op = "downloadModel" =>
                      /\ After(c).outcome = "resolved"
                      /\ After(c).ret.path = After(c).path
                /\ m \in DOMAIN modelFiles'
                /\ modelFiles'[m] = After(c).path]_vars

\* C1 witness: a direct downloadModel call has returned the cached path of a
\* model, and the next call for the same model has found the file again and
\* gone on with the same path.
C1_Witness ==
    /\ last.op = "downloadModel" /\ last.outcome = "resolved"
    /\ last.found /\ last.net = 0
    /\ \E c \in Slots :
          /\ call[c].pc = "initWhisper"
          /\ call[c].modelId = last.modelId
          /\ call[c].found /\ call[c].net = 0
          /\ call[c].path = last.ret.path
          /\ modelFiles[last.modelId] = last.ret.path

\* slot c's transfer ends in this step, with a status other than 200 or
\* with a fault
TransferFails(c) ==
    /\ call[c].pc = "transfer"
    /\ call'[c].pc # "transfer"
    /\ After(c).cause \in {"status", "fault"}

\* C2: when the transfer of a model that modelFiles does not hold ends with
\* a status other than 200 or throws, downloadModel rejects and
\* isModelDownloaded(X) is false right after.
C2_FailedDownloadLeavesNoEntry ==
    [][\A c \in Slots :
         (TransferFails(c) /\ ~IsModelDownloaded(call[c].modelId)) =>
            /\ call'[c].pc = "idle"
            /\ last'.outcome = "DownloadFailed"
            /\ last'.ret = NoReturn
            /\ call[c].modelId \notin DOMAIN modelFiles']_vars

\* C2 witness: a download has just failed and its model has no entry.
C2_Witness ==
    /\ NoneInFlight
    /\ last.outcome = "DownloadFailed" /\ last.cause = "status"
    /\ last.net = 1
    /\ ~IsModelDownloaded(last.modelId)

\* C3: after a download of X has failed, the next downloadModel call for X
\* starts a new transfer, and registers X only when that transfer ends with
\* status 200: it does not return on the file the failed attempt left.
C3_RetryDownloadsAgain ==
    [][\A c \in Slots :
         (/\ ResumesAfterExists(c)
          /\ last.outcome = "DownloadFailed"
          /\ last.modelId = call[c].modelId) =>
            /\ call'[c].pc = "transfer"
            /\ call'[c].net = 1
            /\ modelFiles' = modelFiles]_vars

\* C4: between operations modelFiles holds an entry for X exactly when a
\* file is at the cache path of X.
C4_CacheEntryInvariant ==
    NoneInFlight =>
        \A m \in ModelIds : IsModelDownloaded(m) <=> disk[PathOf(m)] # "absent"

\* C5: once no download and no initialization is in flight, isDownloading
\* and isInitializingModel are both false, however the invocations ended.
C5_BusyFlagsCleared ==
    NoneInFlight => (~isDownloading /\ ~isInitializingModel)

\* C5 witness: an initialization has ended by a failed download and nothing
\* is in flight.
C5_Witness ==
    /\ NoneInFlight
    /\ last.op = "initializeWhisperModel"
    /\ last.outcome = "DownloadFailed"

\* the values r's download has written are in order and, once it has
\* succeeded, end with exactly 1
ProgressInOrder(r) ==
    /\ NonDecreasing(r.reported)
    /\ (r.net = 1 /\ r.path # NoPath) =>
          /\ Len(r.reported) > 0
          /\ r.reported[Len(r.reported)] = [num |-> 1, den |-> 1]

\* C6: the values one download writes to downloadProgress[X] never go down,
\* and the last one of a download that succeeded is exactly 1.
C6_ProgressMonotone ==
    /\ \A c \in Slots : ProgressInOrder(call[c])
    /\ ProgressInOrder(last)
    /\ \A c \in Slots :
          (call[c].pc = "transfer" /\ Len(call[c].reported) > 0) =>
              downloadProgress[call[c].modelId] =
                  call[c].reported[Len(call[c].reported)]

\* C6 witness: a download that reported a value below 1 has succeeded.
C6_Witness ==
    /\ last.op = "downloadModel" /\ last.outcome = "resolved" /\ last.net = 1
    /\ Len(last.reported) = 2
    /\ last.reported[1] = [num |-> 1, den |-> 2]
    /\ downloadProgress[last.modelId] = [num |-> 1, den |-> 1]

----------------------------------------------------------------------------
(* Properties of initializeWhisperModel *)

\* the invocation a step starts: the one a slot now runs, or the one that
\* ended within the step
Invoked ==
    IF \E c \in Slots : call'[c] # call[c]
    THEN call'[CHOOSE c \in Slots : call'[c] # call[c]]
    ELSE last'

\* C7: initializeWhisperModel(id) with an id the catalog does not hold
\* throws the invalid-model error, starts no download and no engine
\* initialization, and leaves the hook's state as it was.
C7_UnknownIdRejected ==
    [][(/\ started' = started + 1
        /\ Invoked.op = "initializeWhisperModel"
        /\ Invoked.modelId \notin ModelIds) =>
            /\ call' = call
            /\ last'.outcome = "InvalidModel"
            /\ last'.net = 0 /\ ~last'.engine
            /\ UNCHANGED <<whisperContext, vadContext, currentModelId,
                           modelFiles, downloadProgress, isDownloading,
                           isInitializingModel>>
            /\ UNCHANGED <<disk, handles>>]_vars

\* C7 witness: a model is active and an initialization with an unknown
\* identifier has just been rejected.
C7_Witness ==
    /\ last.outcome = "InvalidModel" /\ last.modelId = "large-v3-turbo"
    /\ whisperContext # NoHandle
    /\ NoneInFlight

\* the path r holds came out of downloadModel: the file was found, or r's
\* transfer ended with status 200
HasResolved(r) ==
    /\ r.path = PathOf(r.modelId)
    /\ \/ r.found /\ r.net = 0
       \/ ~r.found /\ r.net = 1 /\ r.reported # << >>
                   /\ r.reported[Len(r.reported)] = FinalProgress

\* C8: initWhisper and initWhisperVad are called for a model only after
\* downloadModel has returned its path; an invocation whose download failed
\* never calls the engine.
C8_ResolveBeforeEngine ==
    /\ \A c \in Slots :
          /\ call[c].engine => HasResolved(call[c])
          /\ call[c].pc \in {"initWhisper", "initWhisperVad"} => call[c].engine
    /\ last.engine => HasResolved(last)
    /\ last.outcome \in {"DownloadFailed", "InvalidModel"} => ~last.engine

\* C8 witness: the engine is being asked for a handle on a file that this
\* invocation downloaded.
C8_Witness ==
    \E c \in Slots :
        /\ call[c].pc = "initWhisper" /\ call[c].native = "ok"
        /\ ~call[c].found /\ call[c].net = 1

\* the handle that the application state holds in ref belongs to the
\* initialization that made whisperContext
OfCurrent(ref) == ref # NoHandle => handles[ref].owner = whisperContext

\* C9: once a later successful initialization has completed and nothing is
\* in flight, currentModelId and whisperContext are those of that
\* initialization, and neither vadContext nor the stored realtime
\* transcriber refers to a handle of an earlier initialization.
C9_InitializeSupersedes ==
    (NoneInFlight /\ last.op = "initializeWhisperModel" /\ last.outcome = "ok"
       /\ whisperContext # NoHandle)
    => /\ whisperContext = last.context
       /\ currentModelId = last.modelId
       /\ OfCurrent(vadContext)
       /\ realtimeTranscriber # NoSession
             => sessions[realtimeTranscriber].context = whisperContext

\* C10: a handle that is replaced or cleared is released first, so at most
\* one created handle holds engine-side resources at any time.
C10_SupersededReleased == Cardinality(LiveHandles) <= 1

\* whisperContext and currentModelId name the same model: the handle was
\* created from the file of the model currentModelId names
ActivePair ==
    whisperContext # NoHandle =>
        /\ handles[whisperContext].kind = "whisper"
        /\ currentModelId \in ModelIds
        /\ handles[whisperContext].path = PathOf(currentModelId)

\* the step is the one in which invocation c, for which initWhisper has
\* returned a handle, makes that handle and its identifier the active ones
Activates(c) ==
    /\ call[c].pc = "initWhisper" /\ call[c].native = "ok"
    /\ handles[call[c].handle].path = PathOf(call[c].modelId)
    /\ whisperContext' = call[c].handle
    /\ currentModelId' = call[c].modelId

\* C11: currentModelId is assigned only once initWhisper has returned a
\* handle for that identifier; a non-null whisperContext is always the
\* handle created from the model currentModelId names, and between
\* operations it is the one of the last successful initialization.
C11_ActiveIdTracksInit ==
    /\ [](ActivePair)
    /\ []((NoneInFlight /\ last.outcome = "ok" /\ whisperContext # NoHandle) =>
            (currentModelId = last.modelId /\ whisperContext = last.context))
    /\ [][(currentModelId' # currentModelId \/ whisperContext' # whisperContext) =>
            \/ currentModelId' = Null /\ whisperContext' = NoHandle
            \/ \E c \in Slots : Activates(c)]_vars

\* C11 witness: a model is active and a later initialization of another
\* model has failed in the engine.
C11_Witness ==
    /\ NoneInFlight
    /\ last.outcome = "InitializationFailed"
    /\ whisperContext # NoHandle
    /\ currentModelId # last.modelId

\* invocation c resumes after initWhisperVad answered as native says, with
\* the recognition handle it set still the active one
ResumesAfterVad(c, native) ==
    /\ call[c].pc = "initWhisperVad" /\ call[c].native = native
    /\ call'[c] # call[c]
    /\ whisperContext = call[c].context

\* C12: when initWhisperVad throws after initWhisper succeeded, the call
\* resolves, whisperContext is the new handle with currentModelId = id, and
\* the voice-activity handle is null in vadContext and in the returned
\* value, whatever an earlier initialization had set.
C12_VadFailureNonFatal ==
    [][\A c \in Slots :
         ResumesAfterVad(c, "error") =>
            /\ last'.outcome = "ok"
            /\ whisperContext' = call[c].context
            /\ currentModelId' = call[c].modelId
            /\ vadContext' = NoHandle
            /\ last'.ret.vadContext = NoHandle]_vars

\* C13: a successful initializeWhisperModel(id, {initVad: true}) in which
\* initWhisperVad succeeded returns the recognition handle and the
\* voice-activity handle that this call created.
C13_ReturnsOwnHandles ==
    [][\A c \in Slots :
         ResumesAfterVad(c, "ok") =>
            /\ last'.outcome = "ok"
            /\ last'.ret.whisperContext = call[c].context
            /\ last'.ret.vadContext = call[c].handle]_vars

\* C14: a non-null vadContext was created from the file of the model that
\* currentModelId names.
C14_VadOfActiveModel ==
    vadContext # NoHandle =>
        /\ currentModelId \in ModelIds
        /\ handles[vadContext].path = PathOf(currentModelId)

\* C15: resetWhisperContext sets whisperContext, vadContext and
\* currentModelId to null and leaves modelFiles, downloadProgress,
\* isDownloading and isInitializingModel as they were; a second reset finds
\* nothing left to change.  (A step of the hook that moves no invocation is
\* a reset.)
C15_ResetClearsSession ==
    [][(call' = call /\ last' = last /\ started' = started) =>
          /\ whisperContext' = NoHandle
          /\ vadContext' = NoHandle
          /\ currentModelId' = Null
          /\ UNCHANGED <<modelFiles, downloadProgress, isDownloading,
                         isInitializingModel>>]_vars

\* C15 witness: an initialization with a voice-activity handle has
\* succeeded, the session has been reset since, and the cache map still
\* holds the model.
C15_Witness ==
    /\ NoneInFlight
    /\ last.outcome = "ok" /\ last.initVad /\ last.cause = "none"
    /\ whisperContext = NoHandle /\ vadContext = NoHandle
    /\ currentModelId = Null
    /\ IsModelDownloaded(last.modelId)

----------------------------------------------------------------------------
(* Properties of App *)

\* deleteModel, run in slot c, settles in this step
DeleteSettles(c) == call[c].pc = "unlink" /\ call'[c] # call[c]

SessionRunning == \E s \in DOMAIN sessions : sessions[s].running

\* a transcription that uses the recognition handle is in progress
Busy == isTranscribing \/ SessionRunning

\* C17: deleteModel is never invoked while a file transcription or a
\* realtime session is in progress, and a tap on Remove made while either is
\* in progress gets the Busy alert and changes no state.
C17_DeleteNeverOnBusy ==
    [][/\ \A c \in Slots :
            (call[c].pc # "unlink" /\ call'[c].pc = "unlink") => ~Busy
       /\ (dialog = NoDialog /\ dialog' # NoDialog /\ Busy) =>
            /\ dialog' = "Busy"
            /\ UNCHANGED <<hookVars, disk, handles, call, last, error,
                           realtimeTranscriber, isRealtimeActive,
                           realtimeResult, realtimeFinalResult, sessions, taps,
                           isDeletingModelId, isTranscribing,
                           transcriptionResult>>]_vars

\* C18: at most one download, initialization or deletion is in flight at
\* any moment of a run of the UI.
C18_OneModelOperation ==
    Cardinality({c \in Slots : InFlight(c)}) <= 1

\* the engine's stop() of the running session that handler t holds
\* resolves in this step
StopResolves(t) ==
    /\ taps[t].pc = "stop" /\ taps'[t].pc = "idle"
    /\ sessions[taps[t].transcriber].running
    /\ ~sessions'[taps[t].transcriber].running

\* C19: when stopRealtimeTranscription completes, realtimeFinalResult is
\* the trimmed text of the last event with a non-empty result that the
\* session delivered before stop() resolved, events delivered after the
\* Stop tap included.
C19_FinalIsLastDelivered ==
    [][\A t \in TapSlots :
         (StopResolves(t) /\ sessions[taps[t].transcriber].delivered # "") =>
            realtimeFinalResult' = sessions[taps[t].transcriber].delivered]_vars

\* the step belongs to stopRealtimeTranscription: the tap that runs it to
\* its end, or its resumption after stop()
StopHandlerStep ==
    \/ tapped' # tapped /\ taps' = taps
    \/ \E t \in TapSlots : taps[t].pc = "stop" /\ taps'[t].pc = "idle"

\* C20: stopRealtimeTranscription turns isRealtimeActive from true to false
\* only when the engine's stop() of the running session has resolved, and
\* the UI never shows the session as idle while a realtime session that was
\* started has not been stopped.
C20_EndedOnlyAfterStop ==
    [][/\ (isRealtimeActive /\ ~isRealtimeActive' /\ StopHandlerStep) =>
            \E t \in TapSlots : StopResolves(t)
       /\ SessionRunning' => isRealtimeActive']_vars

----------------------------------------------------------------------------
(* Properties of the launch and of the model chips *)

\* the Ready state of the launch
Ready ==
    /\ whisperContext # NoHandle
    /\ currentModelId = "base"
    /\ ~isDownloading /\ ~isInitializingModel

ChipSucceeds(c) ==
    /\ call[c].op = "initializeWhisperModel"
    /\ call'[c].pc = "idle"
    /\ last'.outcome = "ok"

\* C22: a tap on any chip the UI offers starts the download-if-absent and
\* the initialization of that model, never the invalid-model error, and when
\* the transfer and the engine succeed that model is the active one.
C22_EveryChipSwitches ==
    [][/\ (mounted /\ started' = started + 1) =>
            /\ Invoked.op = "initializeWhisperModel"
            /\ Invoked.pc = "exists"
            /\ Invoked.outcome # "InvalidModel"
       /\ \A c \in Slots :
            ChipSucceeds(c) =>
               /\ whisperContext' # NoHandle
               /\ currentModelId' = call[c].modelId]_vars

\* C23: once App is unmounted no realtime session is running and no handle
\* that the app created is live.
C23_CleanupOnUnmount ==
    unmounted => (~SessionRunning /\ LiveHandles = {})

----------------------------------------------------------------------------
(* Properties of the session state of the hook *)

\* C24: whisperContext is null exactly when currentModelId is null, however
\* initializations (successful or failing) and resets follow each other.
C24_HandleAndIdTogether ==
    (whisperContext = NoHandle) <=> (currentModelId = Null)

\* C24 witness: a model was made active and the session was reset while a
\* later initialization was waiting for the engine.
C24_Witness ==
    /\ whisperContext = NoHandle /\ currentModelId = Null
    /\ \E c \in Slots :
          /\ call[c].pc = "initWhisper"
          /\ call[c].before.whisperContext # NoHandle

\* invocation c of initializeWhisperModel takes this step
StepOf(c) == call[c].op = "initializeWhisperModel" /\ call'[c] # call[c]

\* initWhisper has given invocation c its handle
HoldsHandle(c) ==
    \/ call[c].pc = "initWhisper" /\ call[c].native = "ok"
    \/ call[c].pc = "initWhisperVad"

\* invocation c of initializeWhisperModel rejects in this step: its download
\* failed or initWhisper threw
InitFails(c) ==
    /\ StepOf(c)
    /\ call'[c].pc = "idle"
    /\ last'.outcome \in {"DownloadFailed", "InitializationFailed"}

\* maps f and g agree on every key but key
SameExcept(f, g, key) ==
    /\ DOMAIN f \ {key} = DOMAIN g \ {key}
    /\ \A k \in DOMAIN f \ {key} : f[k] = g[k]

\* C25: an initializeWhisperModel(B) that rejects because the download
\* failed or initWhisper threw has not touched whisperContext, vadContext
\* and currentModelId, and of the rest of the state only the busy flags and
\* downloadProgress[B]: modelFiles is as it was before the call.
C25_FailedInitTouchesNothing ==
    [][\A c \in Slots :
         /\ (StepOf(c) /\ ~HoldsHandle(c)) =>
               UNCHANGED <<whisperContext, vadContext, currentModelId>>
         /\ InitFails(c) =>
               /\ modelFiles' = call[c].before.modelFiles
               /\ SameExcept(downloadProgress', call[c].before.downloadProgress,
                             call[c].modelId)]_vars

\* C25 as amended: such a call has not touched whisperContext, vadContext
\* and currentModelId, and of the rest of the state only the busy flags,
\* downloadProgress[B] and modelFiles[B], the cache entry that the
\* resolution of B's file records before the engine is asked.
C25_FailedInitKeepsSession ==
    [][\A c \in Slots :
         /\ (StepOf(c) /\ ~HoldsHandle(c)) =>
               UNCHANGED <<whisperContext, vadContext, currentModelId>>
         /\ InitFails(c) =>
               /\ SameExcept(modelFiles', call[c].before.modelFiles,
                             call[c].modelId)
               /\ SameExcept(downloadProgress', call[c].before.downloadProgress,
                             call[c].modelId)]_vars

\* C25 witness: model A is active and an initialization of B, whose file was
\* resolved and recorded, has been rejected by the engine.
C25_Witness ==
    /\ NoneInFlight
    /\ last.outcome = "InitializationFailed"
    /\ IsModelDownloaded(last.modelId)
    /\ whisperContext # NoHandle
    /\ currentModelId \in ModelIds \ {last.modelId}
    /\ handles[whisperContext].path = PathOf(currentModelId)

\* the session was reset while invocation c of initializeWhisperModel,
\* started with a model active, is waiting for its download or for the
\* engine
ResetDuring(c) ==
    /\ call[c].op = "initializeWhisperModel"
    /\ call[c].pc \in {"exists", "exists_done", "transfer", "initWhisper"}
    /\ call[c].before.whisperContext # NoHandle
    /\ whisperContext = NoHandle /\ currentModelId = Null

\* C26: after a reset made while an initialization is waiting for its
\* download or for the engine, whisperContext and currentModelId stay null
\* as long as no initialization is started.
C26_ResetWins ==
    [][(started' = started /\ \E c \in Slots : ResetDuring(c)) =>
          (whisperContext' = NoHandle /\ currentModelId' = Null)]_vars

\* the sessions the engine is running
Running == {s \in DOMAIN sessions : sessions[s].running}

\* C27: at most one realtime session is running at a time, and while one is
\* running isRealtimeActive is true and realtimeTranscriber holds the stop
\* function of that session.
C27_OneStoppableSession ==
    /\ Cardinality(Running) <= 1
    /\ \A s \in Running : isRealtimeActive /\ realtimeTranscriber = s

====
